---------------------------- MODULE Spec2Model ----------------------------
(***************************************************************************)
(* Model of the constraint evaluators of package semver (constraints.go).  *)
(*                                                                         *)
(* A clause text is held as the submatches the clause regular expression   *)
(* yields for it: m1 the predicate, m3 the major component, m4 and m5 the  *)
(* minor and patch components with their leading dot trimmed ("" when the  *)
(* component is omitted), m6 the "-prerelease" part ("" when absent).      *)
(* Build metadata takes no part in any comparison and is left out.         *)
(* An expression is a sequence of '||' groups, each a sequence of clause   *)
(* texts joined by ','.  No expression of the model holds a hyphen range,  *)
(* so rewriteRange returns its argument unchanged.                         *)
(***************************************************************************)
EXTENDS Integers, Sequences, FiniteSets, TLC

VARIABLES
    expr,   \* the expression text handed to NewConstraint / NewConstraintNu
    cs,     \* the *Constraints NewConstraint returned (clauses are shared, mutable)
    nu,     \* what NewConstraintNu returned for the same text
    ver,    \* the version the caller checks
    res     \* the last call made on them and what it returned

vars == <<expr, cs, nu, ver, res>>

\* Largest number written in a version component.
MaxNum == 1
\* Largest number of clauses in an expression that has more than one clause.
MaxClauses == 2

---------------------------------------------------------------------------
(* Version: the comparable version value.                                  *)

Nums == 0..MaxNum

\* Prerelease tags; "" is a release.
Pres == {"", "alpha"}

Versions == [major : Nums, minor : Nums, patch : Nums, pre : Pres]

\* strconv of a decimal component, and "" for an omitted one.
Atoi(s) == IF s = "" THEN 0 ELSE CHOOSE n \in Nums : ToString(n) = s

\* The prerelease a "-tag" text names.
preOf(s) == IF s = "-alpha" THEN "alpha" ELSE ""

\* NewVersion on the text major[.minor[.patch]][-tag]: omitted parts are zero.
NewVersion(maj, min, pat, pre) ==
    [major |-> Atoi(maj), minor |-> Atoi(min), patch |-> Atoi(pat), pre |-> preOf(pre)]

compareSegment(a, b) == IF a < b THEN -1 ELSE IF a > b THEN 1 ELSE 0

\* A release is greater than any prerelease of the same major.minor.patch;
\* two prerelease tags compare as text.
comparePrerelease(p, q) ==
    IF p = q THEN 0
    ELSE IF p = "" THEN 1
    ELSE IF q = "" THEN -1
    ELSE IF p = "alpha" THEN -1 ELSE 1

Compare(v, o) ==
    IF compareSegment(v.major, o.major) # 0 THEN compareSegment(v.major, o.major)
    ELSE IF compareSegment(v.minor, o.minor) # 0 THEN compareSegment(v.minor, o.minor)
    ELSE IF compareSegment(v.patch, o.patch) # 0 THEN compareSegment(v.patch, o.patch)
    ELSE comparePrerelease(v.pre, o.pre)

LessThan(v, o) == Compare(v, o) < 0
GreaterThan(v, o) == Compare(v, o) > 0
Equal(v, o) == Compare(v, o) = 0

---------------------------------------------------------------------------
(* Grammar                                                                 *)

\* The keys of constraintOps, which the clause expression alternates over.
Predicates == {"", "=", "!=", ">", "<", ">=", "=>", "<=", "=<", "~", "~>", "^"}

constraintMsg ==
    [p \in Predicates |->
        CASE p \in {"", "="}   -> "%s is not equal to %s"
          [] p = "!="          -> "%s is equal to %s"
          [] p = ">"           -> "%s is less than or equal to %s"
          [] p = "<"           -> "%s is greater than or equal to %s"
          [] p \in {">=", "=>"} -> "%s is less than %s"
          [] p \in {"<=", "=<"} -> "%s is greater than %s"
          [] p \in {"~", "~>"} -> "%s does not have same major and minor version as %s"
          [] p = "^"           -> "%s does not have same major version as %s"]

constraintOps ==
    [p \in Predicates |->
        CASE p \in {"", "="}   -> "constraintTildeOrEqual"
          [] p = "!="          -> "constraintNotEqual"
          [] p = ">"           -> "constraintGreaterThan"
          [] p = "<"           -> "constraintLessThan"
          [] p \in {">=", "=>"} -> "constraintGreaterThanEqual"
          [] p \in {"<=", "=<"} -> "constraintLessThanEqual"
          [] p \in {"~", "~>"} -> "constraintTilde"
          [] p = "^"           -> "constraintCaret"]

ToLower(x) == IF x = "X" THEN "x" ELSE x

isX(x) == LET l == ToLower(x) IN l = "x" \/ l = "*"

Wild == {"x", "X", "*"}
Digits == {ToString(n) : n \in Nums}
Component == Digits \cup Wild

\* Whether constraintRegex matches the clause text.
constraintRegex(c) ==
    /\ c.m1 \in Predicates
    /\ c.m3 \in Component
    /\ c.m4 \in Component \cup {""}
    /\ c.m5 \in Component \cup {""}
    /\ (c.m4 = "" => c.m5 = "")

\* m[2], the version text as written.
origOf(m) == <<m.m3, m.m4, m.m5, m.m6>>

---------------------------------------------------------------------------
(* Legacy evaluator                                                        *)

parseConstraint(m) ==
    IF ~constraintRegex(m) THEN [err |-> "improper constraint"]
    ELSE
      LET majorX == isX(m.m3)
          minorX == ~majorX /\ isX(m.m4)
          patchX == ~majorX /\ ~minorX /\ isX(m.m5)
          con == IF majorX THEN NewVersion("0", "0", "0", "")
                 ELSE IF minorX THEN NewVersion(m.m3, "0", "0", m.m6)
                 ELSE IF patchX THEN NewVersion(m.m3, m.m4, "0", m.m6)
                 ELSE NewVersion(m.m3, m.m4, m.m5, m.m6)
      IN [err        |-> "",
          function   |-> constraintOps[m.m1],
          msg        |-> constraintMsg[m.m1],
          predicate  |-> m.m1,
          con        |-> con,
          orig       |-> origOf(m),
          minorDirty |-> minorX,
          dirty      |-> majorX \/ minorX \/ patchX]

constraintNotEqual(v, c) ==
    IF c.dirty
    THEN IF c.con.major # v.major THEN TRUE
         ELSE IF c.con.minor # v.minor /\ ~c.minorDirty THEN TRUE
         ELSE FALSE
    ELSE ~Equal(v, c.con)

constraintGreaterThan(v, c) == Compare(v, c.con) = 1

constraintLessThan(v, c) ==
    IF ~c.dirty THEN Compare(v, c.con) < 0
    ELSE IF v.major > c.con.major THEN FALSE
    ELSE IF v.minor > c.con.minor /\ ~c.minorDirty THEN FALSE
    ELSE TRUE

constraintGreaterThanEqual(v, c) == Compare(v, c.con) >= 0

constraintLessThanEqual(v, c) ==
    IF ~c.dirty THEN Compare(v, c.con) <= 0
    ELSE IF v.major > c.con.major THEN FALSE
    ELSE IF v.minor > c.con.minor /\ ~c.minorDirty THEN FALSE
    ELSE TRUE

constraintTilde(v, c) ==
    IF LessThan(v, c.con) THEN FALSE
    ELSE IF c.con.major = 0 /\ c.con.minor = 0 /\ c.con.patch = 0 THEN TRUE
    ELSE IF v.major # c.con.major THEN FALSE
    ELSE IF v.minor # c.con.minor /\ ~c.minorDirty THEN FALSE
    ELSE TRUE

\* constraintCaret without its lower bound.
constraintCaretNoFloor(v, c) == v.major = c.con.major

constraintCaret(v, c) ==
    IF LessThan(v, c.con) THEN FALSE
    ELSE IF v.major # c.con.major THEN FALSE
    ELSE TRUE

\* Returns the answer and the clause as the call leaves it: a dirty clause
\* has its msg overwritten.
constraintTildeOrEqual(v, c) ==
    IF c.dirty
    THEN LET c1 == [c EXCEPT !.msg = constraintMsg["~"]]
         IN [ok |-> constraintTilde(v, c1), c |-> c1]
    ELSE [ok |-> Equal(v, c.con), c |-> c]

\* constraint.check: calls c.function(v, c).
check(c, v) ==
    CASE c.function = "constraintTildeOrEqual" -> constraintTildeOrEqual(v, c)
      [] c.function = "constraintNotEqual" -> [ok |-> constraintNotEqual(v, c), c |-> c]
      [] c.function = "constraintGreaterThan" -> [ok |-> constraintGreaterThan(v, c), c |-> c]
      [] c.function = "constraintLessThan" -> [ok |-> constraintLessThan(v, c), c |-> c]
      [] c.function = "constraintGreaterThanEqual" ->
            [ok |-> constraintGreaterThanEqual(v, c), c |-> c]
      [] c.function = "constraintLessThanEqual" ->
            [ok |-> constraintLessThanEqual(v, c), c |-> c]
      [] c.function = "constraintTilde" -> [ok |-> constraintTilde(v, c), c |-> c]
      [] c.function = "constraintCaret" -> [ok |-> constraintCaret(v, c), c |-> c]

\* NewConstraint: every clause of every group parsed; the first error wins.
NewConstraint(e) ==
    LET parsed == [k \in DOMAIN e |-> [i \in DOMAIN e[k] |-> parseConstraint(e[k][i])]]
    IN IF \E k \in DOMAIN e : \E i \in DOMAIN e[k] : parsed[k][i].err # ""
       THEN [err |-> "improper constraint", constraints |-> <<>>]
       ELSE [err |-> "", constraints |-> parsed]

\* The inner loop of Check over group o from clause i: stops at the first
\* clause that fails.
RECURSIVE checkGroup(_, _, _)
checkGroup(o, i, v) ==
    IF i > Len(o) THEN [joy |-> TRUE, o |-> o]
    ELSE LET r == check(o[i], v)
             o1 == [o EXCEPT ![i] = r.c]
         IN IF ~r.ok THEN [joy |-> FALSE, o |-> o1]
            ELSE checkGroup(o1, i + 1, v)

\* The outer loop of Check from group k: returns at the first group with joy.
RECURSIVE checkFrom(_, _, _)
checkFrom(g, k, v) ==
    IF k > Len(g) THEN [ok |-> FALSE, constraints |-> g]
    ELSE LET r == checkGroup(g[k], 1, v)
             g1 == [g EXCEPT ![k] = r.o]
         IN IF r.joy THEN [ok |-> TRUE, constraints |-> g1]
            ELSE checkFrom(g1, k + 1, v)

\* Check that answers from the first group alone.
CheckFirstGroup(g, v) ==
    LET r == checkGroup(g[1], 1, v)
    IN [ok |-> r.joy, constraints |-> [g EXCEPT ![1] = r.o]]

Check(g, v) == checkFrom(g, 1, v)

\* fmt.Errorf(c.msg, v, c.orig)
Errorf(msg, v, orig) == [msg |-> msg, v |-> v, orig |-> orig]

\* The inner loop of Validate: every clause is checked, each failure appended.
RECURSIVE validateGroup(_, _, _, _)
validateGroup(o, i, v, e) ==
    IF i > Len(o) THEN [joy |-> TRUE, o |-> o, e |-> e]
    ELSE LET r == check(o[i], v)
             o1 == [o EXCEPT ![i] = r.c]
         IN IF ~r.ok
            THEN LET rest == validateGroup(o1, i + 1, v,
                                           Append(e, Errorf(r.c.msg, v, r.c.orig)))
                 IN [rest EXCEPT !.joy = FALSE]
            ELSE validateGroup(o1, i + 1, v, e)

RECURSIVE validateFrom(_, _, _, _)
validateFrom(g, k, v, e) ==
    IF k > Len(g) THEN [ok |-> FALSE, e |-> e, constraints |-> g]
    ELSE LET r == validateGroup(g[k], 1, v, e)
             g1 == [g EXCEPT ![k] = r.o]
         IN IF r.joy THEN [ok |-> TRUE, e |-> <<>>, constraints |-> g1]
            ELSE validateFrom(g1, k + 1, v, r.e)

\* Validate that keeps the first failure only.
ValidateFirstReason(g, v) ==
    LET r == validateFrom(g, 1, v, <<>>)
    IN [r EXCEPT !.e = IF Len(r.e) > 1 THEN <<r.e[1]>> ELSE r.e]

Validate(g, v) == validateFrom(g, 1, v, <<>>)

---------------------------------------------------------------------------
(* Range-algebra evaluator                                                 *)

any == [kind |-> "any"]
none == [kind |-> "none"]

\* rangeConstraint{}: a nil bound is the empty sequence.
rangeConstraint(min, max, includeMin, includeMax, excl) ==
    [kind |-> "range", min |-> min, max |-> max,
     includeMin |-> includeMin, includeMax |-> includeMax, excl |-> excl]

\* Union(cs...): none operands dropped, any absorbs, no operand left is none.
Union(members) ==
    LET kept == SelectSeq(members, LAMBDA c : c.kind # "none")
    IN IF \E i \in DOMAIN members : members[i].kind = "any" THEN any
       ELSE IF kept = <<>> THEN none
       ELSE [kind |-> "union", members |-> kept]

\* Intersection(cs...): any operands dropped, none absorbs, no operand left is any.
Intersection(members) ==
    LET kept == SelectSeq(members, LAMBDA c : c.kind # "any")
    IN IF \E i \in DOMAIN members : members[i].kind = "none" THEN none
       ELSE IF kept = <<>> THEN any
       ELSE [kind |-> "intersection", members |-> kept]

\* Whether version v satisfies constraint c.
RECURSIVE Matches(_, _)
Matches(c, v) ==
    CASE c.kind = "any" -> TRUE
      [] c.kind = "none" -> FALSE
      [] c.kind = "version" -> Equal(v, c.v)
      [] c.kind = "range" ->
            /\ c.min # <<>> =>
                  (GreaterThan(v, c.min[1]) \/ (c.includeMin /\ Equal(v, c.min[1])))
            /\ c.max # <<>> =>
                  (LessThan(v, c.max[1]) \/ (c.includeMax /\ Equal(v, c.max[1])))
            /\ \A i \in DOMAIN c.excl : ~Equal(v, c.excl[i])
      [] c.kind = "union" -> \E i \in DOMAIN c.members : Matches(c.members[i], v)
      [] c.kind = "intersection" -> \A i \in DOMAIN c.members : Matches(c.members[i], v)

expandCaret(v) ==
    LET maxv == [major |-> v.major + 1, minor |-> 0, patch |-> 0, pre |-> ""]
    IN rangeConstraint(<<v>>, <<maxv>>, TRUE, FALSE, <<>>)

expandTilde(v, wildMinor) ==
    IF wildMinor THEN expandCaret(v)
    ELSE LET maxv == [major |-> v.major, minor |-> v.minor + 1, patch |-> 0, pre |-> ""]
         IN rangeConstraint(<<v>>, <<maxv>>, TRUE, FALSE, <<>>)

expandNeq(v, wildMinor, wildPatch) ==
    IF ~(wildMinor \/ wildPatch)
    THEN rangeConstraint(<<>>, <<>>, FALSE, FALSE, <<v>>)
    ELSE LET lr == rangeConstraint(<<>>, <<v>>, FALSE, FALSE, <<>>)
             minv == IF wildMinor
                     THEN [major |-> v.major + 1, minor |-> v.minor,
                           patch |-> v.patch, pre |-> ""]
                     ELSE [major |-> v.major, minor |-> v.minor + 1,
                           patch |-> v.patch, pre |-> ""]
             hr == rangeConstraint(<<minv>>, <<>>, TRUE, FALSE, <<>>)
         IN Union(<<lr, hr>>)

expandGreater(v, eq) == rangeConstraint(<<v>>, <<>>, eq, FALSE, <<>>)

expandLess(v, wildMinor, wildPatch, eq) ==
    LET v2 == IF wildMinor
              THEN [major |-> v.major + 1, minor |-> v.minor,
                    patch |-> v.patch, pre |-> ""]
              ELSE IF wildPatch
              THEN [major |-> v.major, minor |-> v.minor + 1,
                    patch |-> v.patch, pre |-> ""]
              ELSE [major |-> v.major, minor |-> v.minor,
                    patch |-> v.patch, pre |-> ""]
    IN rangeConstraint(<<>>, <<v2>>, FALSE, eq, <<>>)

parseConstraintNu(m) ==
    IF ~constraintRegex(m) THEN [err |-> "Malformed constraint", con |-> none]
    ELSE IF isX(m.m3) THEN [err |-> "", con |-> any]
    ELSE
      LET wildMinor == isX(m.m4)
          wildPatch == wildMinor \/ isX(m.m5)
          v == IF wildMinor THEN NewVersion(m.m3, "0", "0", m.m6)
               ELSE IF wildPatch THEN NewVersion(m.m3, m.m4, "0", m.m6)
               ELSE NewVersion(m.m3, m.m4, m.m5, m.m6)
          ok(c) == [err |-> "", con |-> c]
      IN CASE m.m1 = "^" -> ok(expandCaret(v))
           [] m.m1 = "~" -> ok(expandTilde(v, wildMinor))
           [] m.m1 = "!=" -> ok(expandNeq(v, wildMinor, wildPatch))
           [] m.m1 \in {"", "="} ->
                 IF wildPatch \/ wildMinor THEN ok(expandTilde(v, wildMinor))
                 ELSE ok([kind |-> "version", v |-> v])
           [] m.m1 = ">" -> ok(expandGreater(v, FALSE))
           [] m.m1 \in {">=", "=>"} -> ok(expandGreater(v, TRUE))
           [] m.m1 = "<" -> ok(expandLess(v, wildMinor, wildPatch, FALSE))
           [] m.m1 \in {"<=", "=<"} -> ok(expandLess(v, wildMinor, wildPatch, TRUE))
           [] OTHER -> [err |-> "Unrecognized predicate", con |-> none]

\* NewConstraintNu: Union over the groups of the Intersection of each group's
\* clauses; the first clause error is returned.
NewConstraintNu(e) ==
    LET parsed == [k \in DOMAIN e |-> [i \in DOMAIN e[k] |-> parseConstraintNu(e[k][i])]]
        errs == UNION {{parsed[k][i].err : i \in DOMAIN e[k]} : k \in DOMAIN e} \ {""}
        firstErr == LET k0 == CHOOSE k \in DOMAIN e :
                                /\ \E i \in DOMAIN e[k] : parsed[k][i].err # ""
                                /\ \A j \in 1..(k - 1) :
                                      \A i \in DOMAIN e[j] : parsed[j][i].err = ""
                        i0 == CHOOSE i \in DOMAIN e[k0] :
                                /\ parsed[k0][i].err # ""
                                /\ \A j \in 1..(i - 1) : parsed[k0][j].err = ""
                    IN parsed[k0][i0].err
        or == [k \in DOMAIN e |->
                 Intersection([i \in DOMAIN e[k] |-> parsed[k][i].con])]
    IN IF errs # {} THEN [err |-> firstErr, con |-> none]
       ELSE [err |-> "", con |-> Union(or)]

---------------------------------------------------------------------------
(* Inputs                                                                  *)

Tags == {"", "-alpha"}

\* The version patterns major[.minor[.patch]] over the components, and the
\* fully written ones with a prerelease tag.
Patterns ==
    {m \in [m3 : Component, m4 : Component \cup {""}, m5 : Component \cup {""},
            m6 : Tags] :
        /\ m.m4 = "" => m.m5 = ""
        /\ m.m6 # "" => {m.m3, m.m4, m.m5} \subseteq Digits}

Clause(p, m3, m4, m5, m6) == [m1 |-> p, m3 |-> m3, m4 |-> m4, m5 |-> m5, m6 |-> m6]

\* Every clause the grammar accepts over the patterns, and ">>1.0.0".
Clauses ==
    {Clause(p, m.m3, m.m4, m.m5, m.m6) : p \in Predicates, m \in Patterns}
       \cup {Clause(">>", "1", "0", "0", "")}

\* The clauses that expressions of more than one clause are built from:
\* 0.1.1, 1.x, >=0.1.0, <1.1.0-alpha, !=0.1.x
Pool ==
    { Clause("", "0", "1", "1", ""),
      Clause("", "1", "x", "", ""),
      Clause(">=", "0", "1", "0", ""),
      Clause("<", "1", "1", "0", "-alpha"),
      Clause("!=", "0", "1", "x", "") }

\* The expressions of n clauses over Pool, under every placing of ',' and '||'.
RECURSIVE ExprsOf(_)
ExprsOf(n) ==
    IF n = 1 THEN {<< <<c>> >> : c \in Pool}
    ELSE LET shorter == ExprsOf(n - 1)
         IN {[e EXCEPT ![Len(e)] = Append(e[Len(e)], c)] : e \in shorter, c \in Pool}
               \cup {Append(e, <<c>>) : e \in shorter, c \in Pool}

Exprs ==
    {<< <<c>> >> : c \in Clauses} \cup UNION {ExprsOf(n) : n \in 2..MaxClauses}

NoCall == [op |-> "none", ok |-> FALSE, e |-> <<>>]

---------------------------------------------------------------------------
(* The program                                                             *)

Init ==
    /\ expr \in Exprs
    /\ ver \in Versions
    /\ cs = NewConstraint(expr)
    /\ nu = NewConstraintNu(expr)
    /\ res = NoCall

\* cs.Check(ver)
DoCheck ==
    /\ cs.err = ""
    /\ LET r == Check(cs.constraints, ver)
       IN /\ res' = [op |-> "Check", ok |-> r.ok, e |-> <<>>]
          /\ cs' = [cs EXCEPT !.constraints = r.constraints]
    /\ UNCHANGED <<expr, ver, nu>>

\* cs.Validate(ver)
DoValidate ==
    /\ cs.err = ""
    /\ LET r == Validate(cs.constraints, ver)
       IN /\ res' = [op |-> "Validate", ok |-> r.ok, e |-> r.e]
          /\ cs' = [cs EXCEPT !.constraints = r.constraints]
    /\ UNCHANGED <<expr, ver, nu>>

\* Satisfaction of the constraint NewConstraintNu returned.
DoMatches ==
    /\ nu.err = ""
    /\ res' = [op |-> "Matches", ok |-> Matches(nu.con, ver), e |-> <<>>]
    /\ UNCHANGED <<expr, ver, cs, nu>>

Next == DoCheck \/ DoValidate \/ DoMatches

Spec == Init /\ [][Next]_vars

---------------------------------------------------------------------------
(* Properties                                                              *)

\* The expression is one clause.
Single == Len(expr) = 1 /\ Len(expr[1]) = 1
Cl == expr[1][1]

\* The anchor version of a clause text: written numbers, wildcards zero-filled.
Anchor(m) ==
    [major |-> Atoi(m.m3),
     minor |-> IF m.m4 \in Digits THEN Atoi(m.m4) ELSE 0,
     patch |-> IF m.m4 \in Digits /\ m.m5 \in Digits THEN Atoi(m.m5) ELSE 0,
     pre   |-> preOf(m.m6)]

Ver(major, minor, patch) ==
    [major |-> major, minor |-> minor, patch |-> patch, pre |-> ""]

\* The version checked carries no prerelease tag.
Release == ver.pre = ""

\* Whether v satisfies clause c of the built Constraints.
Holds(c, v) == check(c, v).ok

Groups == cs.constraints

\* C1: Check(v) is true iff some '||' group has all of its clauses
\* satisfied by v, and it always returns a boolean.
C1_CheckIsOrOfAnds ==
    res.op = "Check" =>
        /\ res.ok \in BOOLEAN
        /\ res.ok = (\E k \in DOMAIN Groups :
                        \A i \in DOMAIN Groups[k] : Holds(Groups[k][i], ver))

\* Check accepted a version that the first of two groups rejects.
C1_Witness ==
    /\ res.op = "Check"
    /\ Len(expr) = 2
    /\ res.ok
    /\ \E i \in DOMAIN Groups[1] : ~Holds(Groups[1][i], ver)

\* The clauses of group o that v fails, in clause order, as reasons.
FailedIn(o, v) ==
    LET failed == SelectSeq(o, LAMBDA c : ~Holds(c, v))
    IN [i \in DOMAIN failed |-> Errorf(failed[i].msg, v, failed[i].orig)]

RECURSIVE Flatten(_)
Flatten(ss) == IF ss = <<>> THEN <<>> ELSE Head(ss) \o Flatten(Tail(ss))

\* C2: Validate(v) returns (true, no reasons) exactly when Check(v) is true;
\* otherwise false with one reason per failed clause, over every group in
\* group order then clause order, so at least one reason.
C2_ValidateReasons ==
    res.op = "Validate" =>
        /\ res.ok = Check(Groups, ver).ok
        /\ res.ok => res.e = <<>>
        /\ ~res.ok =>
              /\ res.e = Flatten([k \in DOMAIN Groups |-> FailedIn(Groups[k], ver)])
              /\ res.e # <<>>

\* Validate failed with reasons taken from two groups.
C2_Witness ==
    /\ res.op = "Validate"
    /\ ~res.ok
    /\ Len(expr) = 2
    /\ Len(res.e) = 2

\* A '~' or '~>' clause with written major and minor, patch written or wildcard.
TildeCase ==
    /\ res.op = "Check" /\ Single
    /\ Cl.m1 \in {"~", "~>"}
    /\ Cl.m3 \in Digits /\ Cl.m4 \in Digits /\ Cl.m5 \in Component

\* C3: such a clause accepts v iff a <= v < major.(minor+1).0, also when
\* the anchor a is 0.0.0; stated for the versions v without prerelease tag.
C3_TildeRange ==
    (TildeCase /\ Release) =>
        LET a == Anchor(Cl)
        IN res.ok = (/\ Compare(a, ver) <= 0
                     /\ LessThan(ver, Ver(a.major, a.minor + 1, 0)))

\* A '^' clause with a written major, minor and patch written or wildcard.
CaretCase ==
    /\ res.op = "Check" /\ Single
    /\ Cl.m1 = "^"
    /\ Cl.m3 \in Digits /\ Cl.m4 \in Component /\ Cl.m5 \in Component

C5_WildMajorAcceptsAll ==
    (res.op = "Check" /\ Single /\ Cl.m1 \in Predicates /\ Cl.m3 \in Wild /\ Release)
        => res.ok

\* The clause with its first omitted component written as a wildcard.
WithWildcard(m) ==
    IF m.m4 = "" THEN [m EXCEPT !.m4 = "x"] ELSE [m EXCEPT !.m5 = "x"]

\* C6: p+'M' answers as p+'M.x' does, and p+'M.m' as p+'M.m.x' does; stated
\* for the versions and patterns without prerelease tag.
C6_OmittedIsWildcard ==
    (/\ res.op = "Check" /\ Single /\ Release /\ Cl.m6 = ""
     /\ Cl.m1 \in Predicates
     /\ Cl.m3 \in Digits
     /\ Cl.m4 \in Digits \cup {""}
     /\ Cl.m5 = "")
        => res.ok = Check(NewConstraint(<< <<WithWildcard(Cl)>> >>).constraints, ver).ok

\* C7: no call of Check or Validate changes a field of a clause or the
\* group structure.
C7_Immutable == [][cs' = cs]_vars

\* A '<', '<=' or '=<' clause with a written major and a wildcard minor or patch.
LessCase ==
    /\ res.op = "Check" /\ Single
    /\ Cl.m1 \in {"<", "<=", "=<"}
    /\ Cl.m3 \in Digits
    /\ \/ Cl.m4 \in Wild
       \/ Cl.m4 \in Digits /\ Cl.m5 \in Wild

\* C8: such a clause accepts v iff v < bumped(a), or v <= bumped(a) for
\* '<='; stated for the versions v without prerelease tag.
C8_LessWildcard ==
    (LessCase /\ Release) =>
        LET a == Anchor(Cl)
            bumped == IF Cl.m4 \in Wild THEN Ver(a.major + 1, 0, 0)
                      ELSE Ver(a.major, a.minor + 1, 0)
        IN res.ok = IF Cl.m1 = "<" THEN LessThan(ver, bumped)
                    ELSE Compare(ver, bumped) <= 0

\* C9: for clauses of the grammar with a written major, NewConstraintNu
\* returns a constraint and never the 'Unrecognized predicate' error.
C9_EveryPredicateExpands ==
    (\A k \in DOMAIN expr : \A i \in DOMAIN expr[k] :
        constraintRegex(expr[k][i]) /\ expr[k][i].m3 \in Digits)
        => nu.err = ""

\* C10: for an expression both constructors accept, Check(v) equals
\* whether v satisfies the constraint NewConstraintNu returned; stated for
\* the versions v without prerelease tag.
C10_EvaluatorsAgree ==
    (res.op = "Check" /\ cs.err = "" /\ nu.err = "" /\ Release)
        => res.ok = Matches(nu.con, ver)

====
